---- MODULE Spec2Model ----
(***************************************************************************)
(* The session transport bridge of github-enterprise-mcp                   *)
(* (src/server/http.ts): the GET /sse handler, the 'close' listener it     *)
(* registers, and the POST /messages handler, over the two process-wide    *)
(* maps transportMap and connectionStatus; the start of the HTTP listener  *)
(* with its port fallback and the SIGINT handler; the tool handlers of     *)
(* src/server/index.ts; and the configuration the entry point loads        *)
(* (src/dist/index.js, src/dist/utils/config.js).                          *)
(*                                                                         *)
(* Node runs every handler to its next await without interleaving, so one  *)
(* action is one run of a handler between two suspension points.           *)
(* The MCP SDK (SSEServerTransport, McpServer.connect), express and        *)
(* crypto.randomUUID are libraries outside the repository: their outcomes  *)
(* are the nondeterministic choices of the actions.                        *)
(***************************************************************************)
EXTENDS Integers, Sequences, FiniteSets, TLC

\* ------------------------------------------------------------- bounds

\* HTTP connections that issue GET /sse during one process lifetime.
MaxConns == 2

\* Longest raw sessionId query value a POST /messages carries.
MaxQueryLen == 2

\* Math.floor(Math.random() * 1000000) is drawn from 0..MaxRandom here.
MaxRandom == 1

\* A client-supplied JSON-RPC id is drawn from 1..MaxClientId.
MaxClientId == 1

\* Port numbers are 1..MaxPort: MaxPort stands for 65535, the highest port
\* app.listen accepts.
MaxPort == 4

\* Longest owner or repo argument of a tool invocation.
MaxNameLen == 2

\* Most messages followed on one session.
MaxPosts == 3

\* -------------------------------------------------------------- values

Conns == 1..MaxConns

\* Characters of a session id, and of a raw query value (which may hold '?').
UuidChars == {"a", "b"}
QueryChars == UuidChars \cup {"?"}

\* The values crypto.randomUUID can return: strings without '?'.
UUIDs == {<<c>> : c \in UuidChars}

\* A string value of req.query.sessionId; the empty string stands for an
\* absent or empty parameter (both falsy).
QueryStrings == UNION {[1..n -> QueryChars] : n \in 0..MaxQueryLen}

\* req.query.sessionId when the query string is sessionId[k]=v: express hands
\* the handler an object, which has neither includes nor split.
ObjectQuery == <<"[object Object]">>

Queries == QueryStrings \cup {ObjectQuery}

NoSid == <<>>

\* JSON values of the id field: null and undefined are not numbers.
Null == -1
Undefined == -2
ClientIds == 1..MaxClientId
RandomIds == 0..MaxRandom

NoMethod == "undefined"
Methods == {"tools/call"}

\* A session id a client may also put into the body of its POST.
BodySessionIds == {<<"b">>}

\* req.body as the handler reads it: a falsy value (present = FALSE, the case
\* line 132 tests for), or an object whose id, method and sessionId fields
\* may each be missing. (params is copied through by the handler and read by
\* nothing below.)
NoBody ==
  [present |-> FALSE, id |-> Undefined, method |-> NoMethod,
   sessionId |-> NoSid]

ObjectBodies ==
  [present : {TRUE}, id : ClientIds \cup {Undefined},
   method : Methods \cup {NoMethod}, sessionId : BodySessionIds \cup {NoSid}]

Bodies == {NoBody} \cup ObjectBodies

\* Math.random() is read only when the body has no id.
RandomFor(b) == IF b.id = Undefined THEN RandomIds ELSE {0}

\* The JSON-RPC error codes and HTTP statuses the handlers use.
CodeSessionRequired == -32602
CodeInvalidRequest == -32600
CodeSessionNotFound == -32000
CodeConnectionClosed == -32001
CodeInternalError == -32603

NoMsg == [id |-> Undefined, method |-> NoMethod]

\* --------------------------------------------------------------- state

VARIABLES
  transportMap,      \* Map<string, SSEServerTransport>: session id -> the
                     \* connection whose response the transport writes to
  connectionStatus,  \* Map<string, boolean>
  issued,            \* the values randomUUID has returned so far
  ssePc,             \* per connection: position of its GET /sse handler
  sseSid,            \* per connection: the sessionId its handler generated
  connAlive,         \* per connection: the underlying connection is open
  headersSent,       \* per connection: res.headersSent
  writableEnded,     \* per connection: res.writableEnded
  sseOut,            \* per connection: what the client got on this response
  serverTransport,   \* the connection of the transport the one McpServer is
                     \* connected to now (0: none)
  post,              \* the POST /messages request being, or last, handled
  handed,            \* the messages handed so far to the channel of one
                     \* session, each with whether its id was synthesized
  portState,         \* per port: free, held by another process, or unbindable
  attempts,          \* the calls of startHttpServer so far, in order
  proc,              \* the process: started or not, exited or not
  i18nInstance,      \* i18n/index.ts: the singleton is set (not null)
  call,              \* the tool invocation being, or last, handled
  upstream,          \* the requests sent to the GitHub API so far
  isGitHubEnterprise,  \* context.isGitHubEnterprise
  env,               \* process.env, the variables the configuration reads
  argv,              \* the command-line flags
  config             \* the configuration startServer loaded

sseVars ==
  <<transportMap, connectionStatus, issued, ssePc, sseSid, connAlive,
    headersSent, writableEnded, sseOut, serverTransport>>

httpVars == <<sseVars, post>>

startupVars == <<portState, attempts, proc, i18nInstance>>

toolVars == <<call, upstream, isGitHubEnterprise>>

configVars == <<env, argv, config>>

vars == <<httpVars, handed, startupVars, toolVars, configVars>>

\* What the handlers of the bridge leave alone.
restVars == <<handed, startupVars, toolVars, configVars>>

\* -------------------------------------------------------------- Map

EmptyMap == <<>>

MapHas(m, k) == k \in DOMAIN m

MapSet(m, k, v) ==
  [x \in (DOMAIN m) \cup {k} |-> IF x = k THEN v ELSE m[x]]

\* A removal that empties the map.
MapClear(m, k) == <<>>

MapDelete(m, k) == [x \in (DOMAIN m) \ {k} |-> m[x]]

\* connectionStatus.get(sessionId) used as a condition: undefined is falsy.
IsConnected(cs, k) == MapHas(cs, k) /\ cs[k]

\* ------------------------------------------------------- GET /sse

\* A generator that only avoids the ids of the sessions now registered.
ReusableIds == UUIDs \ DOMAIN transportMap

\* randomUUID(): a value it has not returned before.
GeneratedIds == UUIDs \ issued

\* A POST /messages handler that has written its response returns in the
\* same turn of the event loop: no other handler runs in between.
NoPostReturning == post.pc # "done"

\* A catch that answers 500 whether or not the head was sent.
SseCatchAlways500(sent) == "500"

\* Lines 82-91: what the catch writes on the response before ending it, given
\* res.headersSent.
SseCatch(sent) == IF sent THEN "errorEvent" ELSE "500"

\* Lines 47-65 and, when the constructor throws, the catch of lines 82-91:
\* generate the id, construct the transport, register it, call
\* server.connect and suspend on its promise. Connections are numbered in
\* the order their GET /sse arrives. server is the one McpServer of the
\* process (@modelcontextprotocol/sdk ^1.7.0): it holds a single transport,
\* which connect replaces.
SseOpen(c, u, ctorThrows) ==
  /\ NoPostReturning
  /\ ssePc[c] = "none"
  /\ \A d \in Conns : d < c => ssePc[d] # "none"
  /\ u \in GeneratedIds
  /\ issued' = issued \cup {u}
  /\ sseSid' = [sseSid EXCEPT ![c] = u]
  /\ connAlive' = [connAlive EXCEPT ![c] = TRUE]
  /\ IF ctorThrows
       THEN /\ ssePc' = [ssePc EXCEPT ![c] = "failed"]
            /\ headersSent' = [headersSent EXCEPT ![c] = TRUE]
            /\ writableEnded' = [writableEnded EXCEPT ![c] = TRUE]
            /\ sseOut' = [sseOut EXCEPT ![c] = SseCatch(headersSent[c])]
            /\ UNCHANGED <<transportMap, connectionStatus, serverTransport>>
       ELSE /\ ssePc' = [ssePc EXCEPT ![c] = "connecting"]
            /\ transportMap' = MapSet(transportMap, u, c)
            /\ connectionStatus' = MapSet(connectionStatus, u, TRUE)
            /\ serverTransport' = c
            /\ UNCHANGED <<headersSent, writableEnded, sseOut>>
  /\ UNCHANGED <<post, restVars>>

\* Line 65, inside server.connect: the transport starts, writing the head of
\* the event stream and the endpoint event on the response.
SseHeadWritten(c) ==
  /\ NoPostReturning
  /\ ssePc[c] = "connecting"
  /\ ~headersSent[c]
  /\ headersSent' = [headersSent EXCEPT ![c] = TRUE]
  /\ sseOut' = [sseOut EXCEPT ![c] = "stream"]
  /\ UNCHANGED <<transportMap, connectionStatus, issued, ssePc, sseSid,
                 connAlive, writableEnded, serverTransport, post, restVars>>

\* Lines 65-81: server.connect resolved (the transport has started the event
\* stream); the handler registers the 'close' listener and returns.
SseConnectResolved(c) ==
  /\ NoPostReturning
  /\ ssePc[c] = "connecting"
  /\ ssePc' = [ssePc EXCEPT ![c] = "open"]
  /\ headersSent' = [headersSent EXCEPT ![c] = TRUE]
  /\ sseOut' = [sseOut EXCEPT ![c] = "stream"]
  /\ UNCHANGED <<transportMap, connectionStatus, issued, sseSid, connAlive,
                 writableEnded, serverTransport, post, restVars>>

\* The response of connection c closes (the connection went away, or the
\* response was ended): a transport that has started hears it and tells the
\* server, which then has no transport, whichever it was connected to.
TransportAfterClose(c) ==
  IF headersSent[c] /\ ssePc[c] \in {"connecting", "open"}
    THEN 0
    ELSE serverTransport

\* Lines 65 and 82-91: server.connect rejected, before or after the transport
\* wrote the response head; the catch answers 500 or pushes an error event
\* and ends the response.
SseConnectRejected(c) ==
  /\ NoPostReturning
  /\ ssePc[c] = "connecting"
  /\ ssePc' = [ssePc EXCEPT ![c] = "failed"]
  /\ headersSent' = [headersSent EXCEPT ![c] = TRUE]
  /\ writableEnded' = [writableEnded EXCEPT ![c] = TRUE]
  /\ sseOut' = [sseOut EXCEPT ![c] = SseCatch(headersSent[c])]
  /\ serverTransport' = TransportAfterClose(c)
  /\ UNCHANGED <<transportMap, connectionStatus, issued, sseSid, connAlive,
                 post, restVars>>

\* A close listener that marks the session disconnected and keeps its entry
\* in transportMap.
OnCloseKeepsEntry(c) ==
  /\ connectionStatus' = MapSet(connectionStatus, sseSid[c], FALSE)
  /\ transportMap' = transportMap
  /\ writableEnded' = [writableEnded EXCEPT ![c] = TRUE]

\* Lines 68-81: the listener of req's 'close' event.
OnClose(c) ==
  /\ connectionStatus' = MapSet(connectionStatus, sseSid[c], FALSE)
  /\ transportMap' = MapDelete(transportMap, sseSid[c])
  /\ writableEnded' = [writableEnded EXCEPT ![c] = TRUE]

\* The underlying connection of c closes while its response is not ended:
\* 'close' is emitted once, to the listeners registered at that moment (ours
\* is registered at line 68 only).
ConnClose(c) ==
  /\ NoPostReturning
  /\ ssePc[c] # "none"
  /\ connAlive[c]
  /\ ~writableEnded[c]
  /\ connAlive' = [connAlive EXCEPT ![c] = FALSE]
  /\ IF ssePc[c] = "open"
       THEN OnClose(c)
       ELSE UNCHANGED <<transportMap, connectionStatus, writableEnded>>
  /\ serverTransport' = TransportAfterClose(c)
  /\ UNCHANGED <<issued, ssePc, sseSid, headersSent, sseOut, post, restVars>>

\* -------------------------------------------------- POST /messages

RECURSIVE IndexOf(_, _, _)
\* The index of the first ch in s at or after i, or 0.
IndexOf(s, ch, i) ==
  IF i > Len(s) THEN 0
  ELSE IF s[i] = ch THEN i
  ELSE IndexOf(s, ch, i + 1)

\* sessionId.includes('?')
Includes(s, ch) == IndexOf(s, ch, 1) # 0

\* sessionId.split('?')[0]
SplitFirst(s, ch) == SubSeq(s, 1, IndexOf(s, ch, 1) - 1)

\* A handler that looks the raw query value up.
KeepSessionId(q) == q

\* Lines 123-125.
CleanSessionId(q) == IF Includes(q, "?") THEN SplitFirst(q, "?") ELSE q

\* req.body.id || null
IdOrNull(b) == IF b.id = Undefined \/ b.id = 0 THEN Null ELSE b.id

BridgeReply(status, code, id) ==
  [by |-> "bridge", status |-> status, code |-> code, id |-> id]

\* What the channel writes on the POST's response for the message it was
\* handed.
ChannelReply(msg) ==
  [by |-> "channel", status |-> 202, code |-> 0, id |-> msg.id]

\* A normalisation that copies the id through, missing or not.
NormalizeKeepId(b, rnd) == [id |-> b.id, method |-> b.method]

\* Lines 173-178 (params, defaulted to {}, is carried along unread).
Normalize(b, rnd) ==
  [id |-> IF b.id # Undefined THEN b.id ELSE rnd,
   method |-> b.method]

\* A handler that lets a session id in the body override the query.
BodyFirstSessionId(q, b) == IF b.sessionId # NoSid THEN b.sessionId ELSE q

\* Line 105: the session id of a request is its query parameter.
RequestSessionId(q, b) == q

\* A validation that also rejects a body without a method.
BodyInvalidOrNoMethod(b) == ~b.present \/ b.method = NoMethod

\* Line 132: !req.body
BodyInvalid(b) == ~b.present

\* Lines 105-170 and 200-212: the checks of the handler in the code's order.
\* The result is the error response of the first failing check, or the
\* session the message goes to. Calling includes on a value that is not a
\* string throws, and the outer catch answers.
PostCheck(q, b, tm, cs) ==
  IF RequestSessionId(q, b) = <<>>
    THEN [kind |-> "reply", sid |-> NoSid,
          reply |-> BridgeReply(400, CodeSessionRequired, Null)]
  ELSE IF RequestSessionId(q, b) = ObjectQuery
    THEN [kind |-> "throw", sid |-> ObjectQuery,
          reply |-> BridgeReply(500, CodeInternalError, Null)]
  ELSE LET sid == CleanSessionId(RequestSessionId(q, b)) IN
    IF BodyInvalid(b)
      THEN [kind |-> "reply", sid |-> sid,
            reply |-> BridgeReply(400, CodeInvalidRequest, Null)]
    ELSE IF ~MapHas(tm, sid)
      THEN [kind |-> "reply", sid |-> sid,
            reply |-> BridgeReply(404, CodeSessionNotFound, IdOrNull(b))]
    ELSE IF ~IsConnected(cs, sid)
      THEN [kind |-> "reply", sid |-> sid,
            reply |-> BridgeReply(400, CodeConnectionClosed, IdOrNull(b))]
    ELSE [kind |-> "dispatch", sid |-> sid,
          reply |-> BridgeReply(0, 0, Null)]

\* A handler without the outer catch: the exception leaves the handler and
\* nothing is written.
CatchOuterMissing(reply) == <<>>

\* Lines 200-212: the outer catch writes its 500 (no header was sent before
\* the await of handlePostMessage).
CatchOuter(reply) == <<reply>>

IdlePost ==
  [pc |-> "idle", query |-> NoSid, body |-> NoBody, sid |-> NoSid,
   target |-> 0, msg |-> NoMsg, outcome |-> "none",
   written |-> <<>>, answeredOn |-> 0]

\* Lines 102-186: one POST /messages up to the await of handlePostMessage.
Post(q, b, rnd) ==
  /\ post.pc = "idle"
  /\ LET r == PostCheck(q, b, transportMap, connectionStatus) IN
       IF r.kind # "dispatch"
         THEN post' = [IdlePost EXCEPT !.pc = "done", !.query = q, !.body = b,
                         !.sid = r.sid,
                         !.outcome = IF r.kind = "reply" THEN "rejected"
                                                         ELSE "failed",
                         !.written = IF r.kind = "throw"
                                       THEN CatchOuter(r.reply)
                                       ELSE <<r.reply>>]
         ELSE post' = [IdlePost EXCEPT !.pc = "awaiting", !.query = q,
                         !.body = b, !.sid = r.sid,
                         !.target = transportMap[r.sid],
                         !.msg = Normalize(b, rnd)]
  /\ UNCHANGED <<sseVars, restVars>>

\* A catch that answers without looking at res.headersSent.
CatchAlwaysReplies(written, msg) ==
  Append(written, BridgeReply(500, CodeInternalError, msg.id))

\* Lines 187-199: the catch around handlePostMessage.
CatchDispatch(written, msg) ==
  IF Len(written) = 0
    THEN Append(written, BridgeReply(500, CodeInternalError, msg.id))
    ELSE written

\* Line 186: handlePostMessage accepted the message on the POST's response
\* and resolved; the server's reply to the message goes out on the stream of
\* the transport the server is connected to.
HandlerResponded ==
  /\ post.pc = "awaiting"
  /\ post' = [post EXCEPT !.pc = "done", !.outcome = "responded",
                !.written = Append(post.written, ChannelReply(post.msg)),
                !.answeredOn = serverTransport]
  /\ UNCHANGED <<sseVars, restVars>>

\* Lines 186-199: handlePostMessage threw; sent tells whether it had written
\* its response before.
HandlerThrew(sent) ==
  /\ post.pc = "awaiting"
  /\ LET w == IF sent THEN Append(post.written, ChannelReply(post.msg))
                      ELSE post.written IN
       post' = [post EXCEPT !.pc = "done",
                  !.outcome = IF sent THEN "threwAfter" ELSE "threwBefore",
                  !.written = CatchDispatch(w, post.msg)]
  /\ UNCHANGED <<sseVars, restVars>>

\* Line 213: the handler has returned and the response is written; req and
\* res of this POST are no longer referenced.
PostFinished ==
  /\ post.pc = "done"
  /\ post' = IdlePost
  /\ UNCHANGED <<sseVars, restVars>>

\* Lines 172-188 on one registered session, over the POSTs that pass the
\* checks of lines 105-170: the body is normalised, with Math.random read
\* for a missing id, and the result handed to the session's channel.
DispatchOnSession(b, rnd) ==
  /\ Len(handed) < MaxPosts
  /\ ~BodyInvalid(b)
  /\ rnd \in RandomFor(b)
  /\ handed' = Append(handed, [msg |-> Normalize(b, rnd),
                               synthesized |-> b.id = Undefined])
  /\ UNCHANGED <<httpVars, startupVars, toolVars, configVars>>

IdNext == \E b \in Bodies, rnd \in RandomIds : DispatchOnSession(b, rnd)

\* ------------------------------------------- listener start and SIGINT

Ports == 1..MaxPort

\* What binding a port gives: the listener listens (free), the error
\* EADDRINUSE (another process holds the port), or another error such as
\* EACCES (denied).
PortStates == {"free", "inUse", "denied"}

\* process.exitCode of a process that has not exited.
NoExit == -1

\* One call of startHttpServer: the port it was given, what became of
\* app.listen, whether its SIGINT handler has called server1.close(), and
\* whether its error handler logged the failure with console.error.
Attempt(port) ==
  [port |-> port, st |-> "pending", closeCalled |-> FALSE, logged |-> FALSE]

\* A retry that skips a port.
SkipPort(port) == port + 2

\* http.ts line 222: the port of the retry.
NextPort(port) == port + 1

\* http.ts lines 19, 216 and 229: a call of startHttpServer creates the app,
\* calls app.listen(port), registers one more SIGINT handler and returns.
StartHttpServer(port) == Append(attempts, Attempt(port))

\* i18n/index.ts lines 109-112: initializeI18n sets the singleton. No code of
\* the repository calls it; a program that imports the server can, before it
\* calls startServer.
InitializeI18n ==
  /\ proc.st = "init"
  /\ ~i18nInstance
  /\ i18nInstance' = TRUE
  /\ UNCHANGED <<portState, attempts, proc, httpVars, handed, toolVars,
                 configVars>>

\* i18n/index.ts lines 114-119: getI18n returns the singleton, and throws
\* while it is null.
GetI18nThrows == ~i18nInstance

\* index.ts lines 153-181 and 2050-2055: startServer loads the configuration,
\* builds the context and calls getI18n; if that throws, startServer rejects
\* and its caller ends the process with code 1. Otherwise it registers the
\* tools, reads the port, awaits startHttpServer, which returns before the
\* listener has bound, and prints that the server has started.
StartServer ==
  /\ proc.st = "init"
  /\ IF GetI18nThrows
       THEN /\ proc' = [proc EXCEPT !.st = "threw", !.exitCode = 1]
            /\ UNCHANGED attempts
       ELSE /\ attempts' = StartHttpServer(proc.port)
            /\ proc' = [proc EXCEPT !.st = "running", !.banner = TRUE]
  /\ UNCHANGED <<portState, i18nInstance, httpVars, handed, toolVars,
                 configVars>>

\* http.ts lines 216-218: the listener of attempt i has bound its port.
Listening(i) ==
  /\ proc.st = "running"
  /\ i \in DOMAIN attempts
  /\ attempts[i].st = "pending"
  /\ portState[attempts[i].port] = "free"
  /\ attempts' = [attempts EXCEPT ![i].st = "listening"]
  /\ UNCHANGED <<portState, proc, i18nInstance, httpVars, handed, toolVars,
                 configVars>>

\* http.ts lines 218-223: 'error' with code EADDRINUSE: startHttpServer is
\* called again with the next port, its promise dropped. Past the highest
\* port app.listen throws, the dropped promise rejects and the process ends
\* on the unhandled rejection.
ListenAddrInUse(i) ==
  /\ proc.st = "running"
  /\ i \in DOMAIN attempts
  /\ attempts[i].st = "pending"
  /\ portState[attempts[i].port] = "inUse"
  /\ IF NextPort(attempts[i].port) \in Ports
       THEN /\ attempts' =
                 [StartHttpServer(NextPort(attempts[i].port))
                    EXCEPT ![i].st = "inUse"]
            /\ UNCHANGED proc
       ELSE /\ attempts' = [attempts EXCEPT ![i].st = "inUse"]
            /\ proc' = [proc EXCEPT !.st = "crashed", !.exitCode = 1]
  /\ UNCHANGED <<portState, i18nInstance, httpVars, handed, toolVars,
                 configVars>>

\* http.ts lines 218 and 223-225: 'error' with another code: console.error,
\* and nothing else.
ListenOtherError(i) ==
  /\ proc.st = "running"
  /\ i \in DOMAIN attempts
  /\ attempts[i].st = "pending"
  /\ portState[attempts[i].port] = "denied"
  /\ attempts' = [attempts EXCEPT ![i].st = "failed", ![i].logged = TRUE]
  /\ UNCHANGED <<portState, proc, i18nInstance, httpVars, handed, toolVars,
                 configVars>>

\* http.ts lines 229-233: every call of startHttpServer has registered a
\* SIGINT handler closing the server1 of that call; handlers run in the order
\* they were registered and the first one ends the process.
FirstSigintHandler == 1

\* SIGINT arrives.
Sigint ==
  /\ proc.st = "running"
  /\ attempts' = [attempts EXCEPT ![FirstSigintHandler].closeCalled = TRUE]
  /\ proc' = [proc EXCEPT !.st = "exited", !.exitCode = 0]
  /\ UNCHANGED <<portState, i18nInstance, httpVars, handed, toolVars,
                 configVars>>

\* Before startServer has run; every port free; the i18n singleton null
\* (i18n/index.ts line 107).
StartupIdle ==
  /\ portState = [p \in Ports |-> "free"]
  /\ attempts = <<>>
  /\ proc = [st |-> "init", port |-> 1, exitCode |-> NoExit, banner |-> FALSE]
  /\ i18nInstance = FALSE

\* A process about to start on any configured port, with any ports held by
\* other processes or unbindable; the i18n singleton null.
StartupInit ==
  /\ portState \in [Ports -> PortStates]
  /\ attempts = <<>>
  /\ \E p \in Ports :
       proc = [st |-> "init", port |-> p, exitCode |-> NoExit,
               banner |-> FALSE]
  /\ i18nInstance = FALSE

StartupNext ==
  \/ InitializeI18n
  \/ StartServer
  \/ \E i \in 1..MaxPort : Listening(i)
  \/ \E i \in 1..MaxPort : ListenAddrInUse(i)
  \/ \E i \in 1..MaxPort : ListenOtherError(i)
  \/ Sigint

\* ------------------------------------------------------ tool handlers

\* The tools startServer registers, and those whose catch block returns its
\* text with isError: true (index.ts lines 190-2047).
Tools ==
  {"list-repositories", "get-repository", "list-branches", "get-content",
   "list-pull-requests", "get-pull-request", "create-pull-request",
   "merge-pull-request", "get-license-info", "get-enterprise-stats",
   "create-repository", "update-repository", "delete-repository",
   "list-workflows", "list-workflow-runs", "trigger-workflow", "list-issues",
   "get-issue", "create-issue", "list-users", "get-user", "create-user",
   "update-user", "delete-user", "suspend-user", "unsuspend-user",
   "list-user-orgs"}

CatchMarksError ==
  {"list-repositories", "get-repository", "list-branches", "get-content",
   "list-pull-requests", "get-pull-request", "create-pull-request",
   "merge-pull-request", "get-license-info", "list-issues", "get-issue",
   "create-issue", "list-users", "get-user", "create-user", "update-user",
   "delete-user", "suspend-user", "unsuspend-user", "list-user-orgs"}

\* The owner and repo arguments: strings of blanks and letters.
NameChars == {" ", "o"}
Names == UNION {[1..n -> NameChars] : n \in 0..MaxNameLen}
NoName == <<>>

RECURSIVE TrimStart(_)
\* String.prototype.trim, front and back.
TrimStart(s) ==
  IF s # <<>> /\ Head(s) = " " THEN TrimStart(Tail(s)) ELSE s

RECURSIVE TrimEnd(_)
TrimEnd(s) ==
  IF s # <<>> /\ s[Len(s)] = " " THEN TrimEnd(SubSeq(s, 1, Len(s) - 1)) ELSE s

Trim(s) == TrimEnd(TrimStart(s))

\* index.ts lines 1112 and 1123: !x || typeof x !== 'string' || x.trim() === ''
Blank(s) == s = <<>> \/ Trim(s) = <<>>

\* A tool result: its text (by kind) and its isError mark (absent is FALSE).
ToolResult(text, isError) == [text |-> text, isError |-> isError]

NoResult == ToolResult("none", FALSE)

\* A delete-repository handler that does not look at confirm.
DeleteUnconfirmed(owner, repo, confirm) ==
  IF Blank(owner) THEN "ownerRequired"
  ELSE IF Blank(repo) THEN "repoRequired"
  ELSE "call"

\* index.ts lines 1110-1143: the checks of delete-repository before the
\* wrapper is called; "call" when none fails.
DeleteRepositoryCheck(owner, repo, confirm) ==
  IF Blank(owner) THEN "ownerRequired"
  ELSE IF Blank(repo) THEN "repoRequired"
  ELSE IF ~confirm THEN "confirmRequired"
  ELSE "call"

\* A server that refuses only the creation of users outside GitHub
\* Enterprise.
EnterpriseOnlyCreate == {"create-user"}

\* index.ts lines 1772, 1832, 1885, 1930 and 1974: the tools whose handler
\* starts with the check of context.isGitHubEnterprise.
EnterpriseOnly ==
  {"create-user", "update-user", "delete-user", "suspend-user",
   "unsuspend-user"}

\* What a handler does before its first await, for arguments that pass the
\* parameter checks of every tool but delete-repository, whose checks are
\* DeleteRepositoryCheck.
ToolCheck(t, owner, repo, confirm) ==
  IF t = "delete-repository"
    THEN DeleteRepositoryCheck(owner, repo, confirm)
  ELSE IF t \in EnterpriseOnly /\ ~isGitHubEnterprise
    THEN "enterpriseOnly"
  ELSE "call"

\* The early returns that carry isError: true (index.ts lines 1773-1781 and
\* the like); those of delete-repository carry none.
CheckMarksError(r) == r = "enterpriseOnly"

\* repository.ts lines 80-82 and the like: the request a wrapper sends.
UpstreamRequest(t, owner, repo) == [tool |-> t, owner |-> owner, repo |-> repo]

\* The catch block of tool t.
ToolCatch(t) == ToolResult("error", t \in CatchMarksError)

IdleCall ==
  [pc |-> "idle", tool |-> "none", owner |-> NoName, repo |-> NoName,
   confirm |-> FALSE, result |-> NoResult, threw |-> FALSE]

\* A tool is invoked: the handler runs to its first return or to the await
\* of its operation wrapper, which has then sent its request.
ToolInvoke(t, owner, repo, confirm) ==
  /\ call.pc # "awaiting"
  /\ LET r == ToolCheck(t, owner, repo, confirm)
         c == [IdleCall EXCEPT !.tool = t, !.owner = owner, !.repo = repo,
                               !.confirm = confirm] IN
       IF r = "call"
         THEN /\ call' = [c EXCEPT !.pc = "awaiting"]
              /\ upstream' = <<UpstreamRequest(t, owner, repo)>>
         ELSE /\ call' = [c EXCEPT !.pc = "done",
                                   !.result =
                                     ToolResult(r, CheckMarksError(r))]
              /\ upstream' = <<>>
  /\ UNCHANGED <<isGitHubEnterprise, httpVars, handed, startupVars, configVars>>

\* The wrapper returned; the handler formats the result as text.
WrapperReturned ==
  /\ call.pc = "awaiting"
  /\ call' = [call EXCEPT !.pc = "done", !.result = ToolResult("ok", FALSE)]
  /\ UNCHANGED <<upstream, isGitHubEnterprise, httpVars, handed, startupVars,
                 configVars>>

\* The wrapper threw; the catch block of the handler returns.
WrapperThrew ==
  /\ call.pc = "awaiting"
  /\ call' = [call EXCEPT !.pc = "done", !.result = ToolCatch(call.tool),
                          !.threw = TRUE]
  /\ UNCHANGED <<upstream, isGitHubEnterprise, httpVars, handed, startupVars,
                 configVars>>

\* No tool invoked yet, on a server configured against github.com.
ToolIdle ==
  /\ call = IdleCall
  /\ upstream = <<>>
  /\ isGitHubEnterprise = FALSE

\* index.ts lines 167-177: the context startServer built, for a base URL of
\* either kind.
ToolInit ==
  /\ call = IdleCall
  /\ upstream = <<>>
  /\ isGitHubEnterprise \in BOOLEAN

ToolNext ==
  \/ \E owner \in Names, repo \in Names, confirm \in BOOLEAN :
       ToolInvoke("delete-repository", owner, repo, confirm)
  \/ \E t \in Tools \ {"delete-repository"} :
       ToolInvoke(t, NoName, NoName, FALSE)
  \/ WrapperReturned
  \/ WrapperThrew

\* ------------------------------------------------------ configuration

\* The environment variables the configuration reads, in the order of
\* config.js lines 16-19 and 36.
UrlVars ==
  <<"GITHUB_ENTERPRISE_URL", "GITHUB_API_URL", "GHE_API_URL", "GITHUB_URL">>
TokenVars == <<"GITHUB_TOKEN", "GH_TOKEN">>

EnvVars ==
  {UrlVars[i] : i \in DOMAIN UrlVars} \cup {TokenVars[i] : i \in DOMAIN TokenVars}

\* undefined: a variable that is not set, a flag that is not given, a key
\* whose value is undefined.
Unset == "undefined"

\* The value a variable has when it is set: one value per variable, so that
\* the source of a configured value can be told.
EnvValue(v) == "env:" \o v

Envs ==
  {[v \in EnvVars |-> IF v \in set THEN EnvValue(v) ELSE Unset] :
     set \in SUBSET EnvVars}

\* --baseUrl, --github-api-url or --github-enterprise-url, and --token.
Argvs == [url : {Unset, "flag:url"}, token : {Unset, "flag:token"}]

\* config.js line 7.
DefaultBaseUrl == "https://api.github.com"

\* a || b
Or(a, b) == IF a # Unset THEN a ELSE b

RECURSIVE FirstSet(_, _, _)
\* e[vs[i]] || e[vs[i+1]] || ...
FirstSet(e, vs, i) ==
  IF i > Len(vs) THEN Unset ELSE Or(e[vs[i]], FirstSet(e, vs, i + 1))

\* dist/index.js lines 25-71: options.config of the command-line entry point:
\* the keys baseUrl and token are always there, set from two of the
\* variables and replaced by a flag.
CliOverrides(e, a) ==
  [keys |-> {"baseUrl", "token"},
   baseUrl |-> Or(a.url, Or(e["GITHUB_ENTERPRISE_URL"], e["GITHUB_API_URL"])),
   token |-> Or(a.token, e["GITHUB_TOKEN"])]

\* index.ts lines 2083-2085 and 153: startServer() called without options.
NoOverrides == [keys |-> {}, baseUrl |-> Unset, token |-> Unset]

\* config.js lines 34-47: the configuration read from the environment, the
\* URL flag first; keys whose value is undefined are filtered out.
EnvironmentConfig(e, a) ==
  [baseUrl |-> Or(a.url, FirstSet(e, UrlVars, 1)),
   token |-> FirstSet(e, TokenVars, 1)]

\* A merge in which an override that is undefined does not replace a value.
MergeDefined(base, ov, k) == Or(ov[k], base[k])

\* config.js lines 49-52: { ...filteredEnvConfig, ...overrides }: a key of
\* overrides replaces the value, also when its value is undefined.
Merge(base, ov, k) == IF k \in ov.keys THEN ov[k] ELSE base[k]

\* config.js lines 6-12 and 49: ConfigSchema.parse fills in the default.
LoadConfig(e, a, ov) ==
  [baseUrl |-> Or(Merge(EnvironmentConfig(e, a), ov, "baseUrl"), DefaultBaseUrl),
   token |-> Merge(EnvironmentConfig(e, a), ov, "token")]

NotLoaded == [via |-> "none", baseUrl |-> Unset, token |-> Unset]

\* index.ts line 155 reached from the command-line entry point.
LoadViaCli ==
  /\ config.via = "none"
  /\ config' = [via |-> "cli"] @@ LoadConfig(env, argv, CliOverrides(env, argv))
  /\ UNCHANGED <<env, argv, httpVars, handed, startupVars, toolVars>>

\* index.ts line 155 reached from startServer() without options.
LoadDirect ==
  /\ config.via = "none"
  /\ config' = [via |-> "direct"] @@ LoadConfig(env, argv, NoOverrides)
  /\ UNCHANGED <<env, argv, httpVars, handed, startupVars, toolVars>>

ConfigIdle ==
  /\ env = [v \in EnvVars |-> Unset]
  /\ argv = [url |-> Unset, token |-> Unset]
  /\ config = NotLoaded

\* Any environment and any flags.
ConfigInit ==
  /\ env \in Envs
  /\ argv \in Argvs
  /\ config = NotLoaded

ConfigNext ==
  \/ LoadViaCli
  \/ LoadDirect

\* ---------------------------------------------------------------- spec


HttpInit ==
  /\ transportMap = EmptyMap
  /\ connectionStatus = EmptyMap
  /\ issued = {}
  /\ ssePc = [c \in Conns |-> "none"]
  /\ sseSid = [c \in Conns |-> NoSid]
  /\ connAlive = [c \in Conns |-> FALSE]
  /\ headersSent = [c \in Conns |-> FALSE]
  /\ writableEnded = [c \in Conns |-> FALSE]
  /\ sseOut = [c \in Conns |-> "none"]
  /\ serverTransport = 0
  /\ post = IdlePost
  /\ handed = <<>>

Init ==
  /\ HttpInit
  /\ StartupIdle
  /\ ToolIdle
  /\ ConfigIdle

Next ==
  \/ \E c \in Conns, u \in UUIDs, t \in BOOLEAN : SseOpen(c, u, t)
  \/ \E c \in Conns : SseConnectResolved(c)
  \/ \E c \in Conns : SseHeadWritten(c)
  \/ \E c \in Conns : SseConnectRejected(c)
  \/ \E c \in Conns : ConnClose(c)
  \/ \E q \in Queries, b \in Bodies : \E rnd \in RandomFor(b) : Post(q, b, rnd)
  \/ PostFinished
  \/ HandlerResponded
  \/ \E sent \in BOOLEAN : HandlerThrew(sent)

Spec == Init /\ [][Next]_vars

\* The start of the listener, from any configured port and any ports taken.
InitStartup ==
  /\ HttpInit
  /\ StartupInit
  /\ ToolIdle
  /\ ConfigIdle

StartupSpec == InitStartup /\ [][StartupNext]_vars

\* The tool handlers.
InitTool ==
  /\ HttpInit
  /\ StartupIdle
  /\ ToolInit
  /\ ConfigIdle

ToolSpec == InitTool /\ [][ToolNext]_vars

\* The loading of the configuration, from any environment and any flags.
InitConfig ==
  /\ HttpInit
  /\ StartupIdle
  /\ ToolIdle
  /\ ConfigInit

ConfigSpec == InitConfig /\ [][ConfigNext]_vars

\* The ids of the messages one session is handed.
IdSpec == Init /\ [][IdNext]_vars

\* -------------------------------------------------------------- claims

\* The GET /sse handler of connection c got as far as registering its session.
Registered(c) == ssePc[c] # "none" /\ MapHas(connectionStatus, sseSid[c])

\* The close listener's effects on the session of connection c.
TornDown(c) ==
  /\ ~MapHas(transportMap, sseSid[c])
  /\ MapHas(connectionStatus, sseSid[c])
  /\ ~connectionStatus[sseSid[c]]
  /\ writableEnded[c]

\* C1: no two GET /sse handler runs of one process are given the same
\* sessionId, whether or not the session that got the id first has closed.
C1_SessionIdsUnique ==
  \A c, d \in Conns :
    (c # d /\ ssePc[c] # "none" /\ ssePc[d] # "none") => sseSid[c] # sseSid[d]

\* C1 witness: the first session has closed and was removed, and a second
\* session is registered under another id.
C1_Witness ==
  \E c, d \in Conns :
    /\ c < d
    /\ ssePc[c] = "open" /\ ~connAlive[c] /\ TornDown(c)
    /\ ssePc[d] \in {"connecting", "open"} /\ connAlive[d]
    /\ MapHas(transportMap, sseSid[d])
    /\ sseSid[c] # sseSid[d]

\* C2 (as claimed): once the connection of a registered session has closed,
\* at whatever moment after the registration, and its GET /sse handler has
\* run to its end with server.connect resolved, the session is removed from
\* transportMap, its connectionStatus is false and the response is ended.
C2_CloseTearsDown ==
  \A c \in Conns :
    (Registered(c) /\ ~connAlive[c] /\ ssePc[c] = "open") => TornDown(c)

\* A step that is the run of one POST /messages handler up to its first
\* response or its dispatch; post' then holds the request and the outcome.
PostStep == post.pc = "idle" /\ post'.pc # "idle"

\* The bridge answered the request p with one error response.
Replied(p, status, code) ==
  /\ p.pc = "done"
  /\ p.outcome = "rejected"
  /\ Len(p.written) = 1
  /\ p.written[1].by = "bridge"
  /\ p.written[1].status = status
  /\ p.written[1].code = code

\* The request p was handed to a channel.
Dispatched(p) == p.pc = "awaiting" /\ p.target # 0 /\ p.msg # NoMsg

\* s is the query value q up to its first '?' (all of q when it has none).
IsKeyOf(s, q) ==
  /\ \A i \in 1..Len(s) : s[i] # "?"
  /\ \/ q = s
     \/ \E x \in QueryStrings : q = s \o <<"?">> \o x

\* The request p got the routing result r.
RoutedAs(p, r) ==
  /\ p.sid = r.sid
  /\ IF r.kind = "dispatch"
       THEN Dispatched(p) /\ p.target = transportMap[r.sid]
       ELSE p.pc = "done" /\ p.written = <<r.reply>>

C4_ClosedSessionGets400 ==
  [][(/\ PostStep
      /\ post'.body.present
      /\ \E c \in Conns : /\ ssePc[c] = "open" /\ ~connAlive[c]
                           /\ TornDown(c)
                           /\ post'.query = sseSid[c])
       => Replied(post', 400, CodeConnectionClosed)]_vars

\* C5 (as claimed): a POST /messages with a string sessionId is answered by
\* the first failing check of: session id present (400, -32602), body
\* present with a method (400, -32600), session registered (404, -32000),
\* session connected (400, -32001); it is dispatched when none fails.
C5_ValidationOrder ==
  [][(PostStep /\ post'.query \in QueryStrings) =>
       IF post'.query = <<>>
         THEN Replied(post', 400, CodeSessionRequired)
       ELSE IF ~post'.body.present \/ post'.body.method = NoMethod
         THEN Replied(post', 400, CodeInvalidRequest)
       ELSE IF ~MapHas(transportMap, post'.sid)
         THEN Replied(post', 404, CodeSessionNotFound)
       ELSE IF ~IsConnected(connectionStatus, post'.sid)
         THEN Replied(post', 400, CodeConnectionClosed)
       ELSE Dispatched(post')]_vars

\* C6 (as claimed): a POST /messages to a registered, connected session whose
\* body has no method is answered 400 with code -32600, is not handed to the
\* channel, and leaves the registry unchanged.
C6_NoMethodRejected ==
  [][(/\ PostStep
      /\ post'.body.present
      /\ post'.body.method = NoMethod
      /\ MapHas(transportMap, post'.sid)
      /\ IsConnected(connectionStatus, post'.sid))
       => /\ Replied(post', 400, CodeInvalidRequest)
          /\ post'.msg = NoMsg
          /\ UNCHANGED <<transportMap, connectionStatus>>]_vars

C8_QueryDecidesRouting ==
  [][(PostStep /\ post'.body.present) =>
       /\ \A v \in BodySessionIds \cup {NoSid} :
            RoutedAs(post',
                     PostCheck(post'.query, [post'.body EXCEPT !.sessionId = v],
                               transportMap, connectionStatus))
       /\ Dispatched(post') =>
            /\ IsKeyOf(post'.sid, post'.query)
            /\ post'.target = transportMap[post'.sid]]_vars

\* C8 witness: a POST whose body names another registered session was handed
\* to the channel of the session its query names.
C8_Witness ==
  /\ Dispatched(post)
  /\ post.body.sessionId # NoSid
  /\ post.body.sessionId # post.sid
  /\ MapHas(transportMap, post.body.sessionId)
  /\ MapHas(transportMap, post.sid)
  /\ post.target = transportMap[post.sid]
  /\ post.target # transportMap[post.body.sessionId]

\* C9: when a POST /messages whose body has no id is dispatched, the message
\* handed to the channel carries a number as id, and every response written
\* for that POST carries that id.
C9_SynthesizedIdEchoed ==
  (post.target # 0 /\ post.body.id = Undefined) =>
    /\ post.msg.id \in Nat
    /\ \A i \in 1..Len(post.written) : post.written[i].id = post.msg.id

\* C9 witness: the handler threw on a message whose id was synthesized and
\* the bridge answered 500 under that id.
C9_Witness ==
  /\ post.outcome = "threwBefore"
  /\ post.body.id = Undefined
  /\ Len(post.written) = 1
  /\ post.written[1].status = 500
  /\ post.written[1].id = post.msg.id
  /\ post.msg.id \in RandomIds

\* C10: at most one response is written for a POST /messages: the channel's
\* own when its handler sent one (whether it then returned or threw), and the
\* bridge's 500 with code -32603 when the handler threw before sending.
C10_AtMostOneResponse ==
  /\ Len(post.written) <= 1
  /\ post.outcome \in {"responded", "threwAfter"} =>
       Len(post.written) = 1 /\ post.written[1].by = "channel"
  /\ post.outcome = "threwBefore" =>
       /\ Len(post.written) = 1
       /\ post.written[1].by = "bridge"
       /\ post.written[1].status = 500
       /\ post.written[1].code = CodeInternalError

\* C10 witness: the handler threw after it had sent its response, and that
\* response is the only one written.
C10_Witness ==
  /\ post.outcome = "threwAfter"
  /\ Len(post.written) = 1
  /\ post.written[1].by = "channel"

\* Connection b takes no step of its own: its handler does not advance, its
\* transport writes no head, its connection does not close.
Idle(b) ==
  /\ ssePc'[b] = ssePc[b]
  /\ headersSent'[b] = headersSent[b]
  /\ connAlive'[b] = connAlive[b]

\* The entry of key s is the same in the maps m and n.
SameEntry(m, n, s) ==
  /\ MapHas(m, s) <=> MapHas(n, s)
  /\ MapHas(m, s) => m[s] = n[s]

\* C11: every step that is not session B's own (the open, the connect or the
\* close of another session, a POST to any session) leaves B's transportMap
\* entry and connectionStatus flag as they were, and with them the routing
\* of every POST addressed to B. (A step that writes to neither map leaves
\* them so; the steps that write are the ones looked at.)
C11_OtherSessionsUntouched ==
  [][\A b \in Conns :
       (/\ ssePc[b] # "none"
        /\ Idle(b)
        /\ <<transportMap, connectionStatus>>' # <<transportMap, connectionStatus>>) =>
         /\ SameEntry(transportMap, transportMap', sseSid[b])
         /\ SameEntry(connectionStatus, connectionStatus', sseSid[b])
         /\ \A bd \in Bodies :
              PostCheck(sseSid[b], bd, transportMap', connectionStatus')
                = PostCheck(sseSid[b], bd, transportMap, connectionStatus)]_vars

\* C11 witness: one session has closed and was removed, and a POST to the
\* other, still registered, was handed to that session's channel.
C11_Witness ==
  \E a, b \in Conns :
    /\ a # b
    /\ ssePc[a] = "open" /\ ~connAlive[a] /\ TornDown(a)
    /\ ssePc[b] = "open" /\ connAlive[b]
    /\ Dispatched(post)
    /\ post.sid = sseSid[b]
    /\ post.target = b

\* C12 (as claimed): once every GET /sse handler has run to its end with its
\* stream set up, the reply to a message POSTed to a session whose stream is
\* open goes out on that session's stream, whatever other sessions have
\* opened or closed.
C12_AnsweredOnOwnChannel ==
  (/\ post.outcome = "responded"
   /\ \A c \in Conns : ssePc[c] \in {"none", "open"}
   /\ connAlive[post.target])
    => post.answeredOn = post.target

\* C15: when the construction or the connect of the channel of a GET /sse
\* fails, the catch writes a 500 response if no header was sent and an error
\* event on the stream otherwise, and ends the response.
C15_SetupFailureReported ==
  [][\A c \in Conns :
       (ssePc[c] # "failed" /\ ssePc'[c] = "failed") =>
         /\ sseOut'[c] = IF headersSent[c] THEN "errorEvent" ELSE "500"
         /\ writableEnded'[c]]_vars

\* C15 witness: one GET /sse failed before any header and got 500, another
\* failed after the head of the stream and got the error event; both
\* responses are ended.
C15_Witness ==
  \E c, d \in Conns :
    /\ ssePc[c] = "failed" /\ sseOut[c] = "500" /\ writableEnded[c]
    /\ ssePc[d] = "failed" /\ sseOut[d] = "errorEvent" /\ writableEnded[d]

\* A response the bridge or the channel wrote on a POST.
WellFormed(w) ==
  \/ w.by = "channel"
  \/ /\ w.by = "bridge"
     /\ w.status \in {400, 404, 500}
     /\ w.code \in {CodeSessionRequired, CodeInvalidRequest,
                    CodeSessionNotFound, CodeConnectionClosed,
                    CodeInternalError}

\* C16: every run of the POST /messages handler that has ended wrote exactly
\* one well-formed response, whatever the query value and the body; every
\* run of the GET /sse handler that has ended left an ended response with a
\* 500 or an error event, a closed connection, or an open stream registered
\* under its session id.
C16_NoEscape ==
  /\ post.pc = "done" =>
       Len(post.written) = 1 /\ WellFormed(post.written[1])
  /\ \A c \in Conns :
       /\ ssePc[c] = "failed" =>
            writableEnded[c] /\ sseOut[c] \in {"500", "errorEvent"}
       /\ ssePc[c] = "open" =>
            \/ ~connAlive[c]
            \/ /\ sseOut[c] = "stream"
               /\ MapHas(transportMap, sseSid[c])
               /\ transportMap[sseSid[c]] = c
               /\ IsConnected(connectionStatus, sseSid[c])

\* C16 witness: the handler threw on a sessionId that is no string, and the
\* outer catch answered 500 with code -32603 and id null.
C16_Witness ==
  /\ post.pc = "done"
  /\ post.outcome = "failed"
  /\ post.query = ObjectQuery
  /\ post.written = <<BridgeReply(500, CodeInternalError, Null)>>

\* The ports startHttpServer could bind, not below the configured one, and
\* the lowest of them when ports p, p+1, ... below it are all held by other
\* processes.
Reachable(q) ==
  /\ q \in Ports
  /\ q >= proc.port
  /\ \A r \in proc.port..(q - 1) : portState[r] = "inUse"

\* No call of startHttpServer is waiting for its listener.
Settled ==
  /\ proc.st = "running"
  /\ \A i \in DOMAIN attempts : attempts[i].st # "pending"

C14_OtherFailureFatal ==
  \A i \in DOMAIN attempts :
    attempts[i].st = "failed" =>
      /\ attempts[i].logged
      /\ i = Len(attempts)
      /\ proc.st # "running"

\* C17 (as claimed): when the process has exited on SIGINT, close was called
\* on the listener that was bound, after port fallbacks too.
C17_SigintClosesBound ==
  (proc.st = "exited" /\ proc.exitCode = 0) =>
    \A i \in DOMAIN attempts :
      attempts[i].st = "listening" => attempts[i].closeCalled

\* An invocation of delete-repository has ended.
DeleteDone == call.pc = "done" /\ call.tool = "delete-repository"

\* C18 (as claimed): every invocation of delete-repository with confirm
\* false sends no upstream request and returns the request for confirmation.
C18_UnconfirmedAsksConfirm ==
  (DeleteDone /\ ~call.confirm) =>
    upstream = <<>> /\ call.result.text = "confirmRequired"

\* C18 (amended): delete-repository sends an upstream request only when
\* confirm is true; with confirm false no request is sent, and the result is
\* the request for confirmation when owner and repo are not blank (a blank
\* owner or repo is reported first).
C18_DeleteOnlyConfirmed ==
  call.tool = "delete-repository" =>
    /\ upstream # <<>> => call.confirm
    /\ (call.pc = "done" /\ ~call.confirm) =>
         /\ upstream = <<>>
         /\ (~Blank(call.owner) /\ ~Blank(call.repo))
              => call.result.text = "confirmRequired"

\* C18 witness: delete-repository was invoked for a named repository with
\* confirm false; it asked for confirmation and sent nothing.
C18_Witness ==
  /\ DeleteDone
  /\ ~call.confirm
  /\ ~Blank(call.owner) /\ ~Blank(call.repo)
  /\ call.result.text = "confirmRequired"
  /\ upstream = <<>>

\* C19 (as claimed): when the operation wrapper of a tool threw, the handler
\* returned a text result marked isError.
C19_ThrowMarkedError ==
  (call.pc = "done" /\ call.threw) =>
    call.result.text = "error" /\ call.result.isError

\* Some variable of vs is set in the environment.
AnySet(vs) == \E i \in DOMAIN vs : env[vs[i]] # Unset

\* The values of the variables of vs that are set.
SetValues(vs) == {env[vs[i]] : i \in DOMAIN vs} \ {Unset}

\* C20 (as claimed): the configuration loaded from the command-line entry
\* point without a URL flag has the value of a recognised URL variable that
\* is set, and without a token flag the value of a token variable that is
\* set; never the default in their place.
C20_EnvBeforeDefault ==
  config.via = "cli" =>
    /\ (argv.url = Unset /\ AnySet(UrlVars))
         => config.baseUrl \in SetValues(UrlVars)
    /\ (argv.token = Unset /\ AnySet(TokenVars))
         => config.token \in SetValues(TokenVars)

\* C21 (as claimed): transportMap is one-to-one with the open streams: every
\* open stream has its entry, and an entry belongs to a stream that is being
\* set up or is open and not closed; a stream whose setup failed or that has
\* closed has no entry.
C21_RegistryMatchesOpenStreams ==
  /\ \A c \in Conns :
       (ssePc[c] = "open" /\ connAlive[c]) =>
         (MapHas(transportMap, sseSid[c]) /\ transportMap[sseSid[c]] = c)
  /\ \A u \in DOMAIN transportMap :
       /\ sseSid[transportMap[u]] = u
       /\ \/ ssePc[transportMap[u]] = "connecting"
          \/ ssePc[transportMap[u]] = "open" /\ connAlive[transportMap[u]]

\* The session id u is in its CLOSED state: marked disconnected and removed.
Closed(cs, tm, u) == MapHas(cs, u) /\ ~cs[u] /\ ~MapHas(tm, u)

\* C22: a session id moves only from unknown to connected to closed. It
\* becomes known by the registration of a fresh id, as connected and
\* registered; it stops being connected only in the step in which its own
\* connection closes, and is then closed; once closed it stays closed and is
\* never registered or connected again.
C22_SessionLifecycle ==
  [][\A u \in UUIDs :
       /\ (~MapHas(connectionStatus, u) /\ MapHas(connectionStatus', u)) =>
            /\ u \notin issued
            /\ IsConnected(connectionStatus', u)
            /\ MapHas(transportMap', u)
       /\ (IsConnected(connectionStatus, u)
             /\ ~IsConnected(connectionStatus', u)) =>
            /\ \E c \in Conns :
                 sseSid[c] = u /\ connAlive[c] /\ ~connAlive'[c]
            /\ Closed(connectionStatus', transportMap', u)
       /\ Closed(connectionStatus, transportMap, u) =>
            Closed(connectionStatus', transportMap', u)
       /\ (MapHas(connectionStatus, u) /\ ~MapHas(transportMap, u)) =>
            ~MapHas(transportMap', u)]_vars

\* C22 witness: a session went through connected to closed, every id the
\* generator can give has been given, and another session is connected.
C22_Witness ==
  /\ issued = UUIDs
  /\ \E c, d \in Conns :
       /\ c # d
       /\ Closed(connectionStatus, transportMap, sseSid[c])
       /\ ssePc[c] = "open"
       /\ ssePc[d] = "open"
       /\ IsConnected(connectionStatus, sseSid[d])

\* C23 (as claimed): a POST /messages handler that finds a session in
\* transportMap finds it marked connected, and hands its message only to a
\* channel whose server.connect has completed.
C23_DispatchOnlyAfterConnect ==
  [][\A u \in DOMAIN transportMap :
       /\ IsConnected(connectionStatus, u)
       /\ (PostStep /\ Dispatched(post') /\ post'.sid = u) =>
            ssePc[transportMap[u]] = "open"]_vars

\* C26: a session id is a key of transportMap exactly when connectionStatus
\* holds true for it, and no POST /messages is answered with the 400 of code
\* -32001.
C26_MapsAgree ==
  /\ \A u \in UUIDs :
       MapHas(transportMap, u) <=> IsConnected(connectionStatus, u)
  /\ \A i \in DOMAIN post.written :
       post.written[i].code # CodeConnectionClosed

\* C26 witness: a POST names, with a valid body, a session whose stream has
\* closed and whose close listener has run; it is answered 404.
C26_Witness ==
  /\ Replied(post, 404, CodeSessionNotFound)
  /\ \E c \in Conns :
       /\ ssePc[c] = "open"
       /\ ~connAlive[c]
       /\ post.sid = sseSid[c]
       /\ connectionStatus[sseSid[c]] = FALSE

\* C27 (as claimed): when the setup of a GET /sse has failed, also after the
\* registration (server.connect threw), the session is neither in
\* transportMap nor marked connected.
C27_FailedSetupUnregistered ==
  \A c \in Conns :
    ssePc[c] = "failed" =>
      /\ ~MapHas(transportMap, sseSid[c])
      /\ ~IsConnected(connectionStatus, sseSid[c])

\* The calls of startHttpServer went up port by port from the configured
\* one, each after the one before found its port in use.
TriedInOrder ==
  \A i \in DOMAIN attempts :
    /\ attempts[i].port = proc.port + i - 1
    /\ i < Len(attempts) => attempts[i].st = "inUse"

\* Every port from the configured one to the highest is held by another
\* process.
AllInUse == \A q \in proc.port..MaxPort : portState[q] = "inUse"

\* C24 (as amended): the fallback has no bound on the number of retries: as
\* long as the ports from p on are in use the next port is tried, up to the
\* highest port; the start reaches a bound listener exactly when some port q
\* not below p binds with every port from p to q-1 in use; a bind that fails
\* otherwise stops the search with nothing bound and the process running;
\* and when every port from p to the highest is in use the process ends with
\* code 1.
C24_FallbackUnbounded ==
  /\ TriedInOrder
  /\ \A i \in DOMAIN attempts :
       (attempts[i].st = "inUse" /\ attempts[i].port < MaxPort) =>
         i < Len(attempts)
  /\ Settled =>
       ((\E i \in DOMAIN attempts : attempts[i].st = "listening")
          <=> (\E q \in Ports : Reachable(q) /\ portState[q] = "free"))
  /\ proc.st = "crashed" <=>
       (/\ AllInUse
        /\ Len(attempts) = MaxPort - proc.port + 1
        /\ attempts[Len(attempts)].st = "inUse")
  /\ proc.st = "crashed" => proc.exitCode = 1

\* C24 witness: three ports in a row were in use up to the highest, each was
\* tried, and the process ended.
C24_Witness ==
  /\ proc.st = "crashed"
  /\ Len(attempts) >= 3
  /\ \A i \in DOMAIN attempts : attempts[i].st = "inUse"

\* C24 (as claimed): the start reaches a bound listener exactly when some
\* port not below the configured one is free, and otherwise neither binds nor
\* gives up.
C24_AnyFreePortBinds ==
  /\ proc.st # "crashed"
  /\ Settled =>
       ((\E i \in DOMAIN attempts : attempts[i].st = "listening")
          <=> (\E q \in Ports : q >= proc.port /\ portState[q] = "free"))

\* C28 (as claimed): once startServer has printed that the server started on
\* the configured port, the listener startHttpServer returned is bound, on
\* that port.
C28_BannerMeansBound ==
  proc.banner =>
    /\ attempts[1].st = "listening"
    /\ attempts[1].port = proc.port
    /\ \A i \in DOMAIN attempts :
         attempts[i].st = "listening" => attempts[i].port = proc.port

\* C29 (as claimed): startServer finds the i18n singleton initialised at its
\* getI18n call and goes on to start the transport; it never ends by
\* throwing 'i18n not initialized'.
C29_I18nReadyAtStart ==
  proc.st # "init" => (i18nInstance /\ proc.st # "threw")

\* C25: when context.isGitHubEnterprise is false, an invocation of
\* create-user, update-user, delete-user, suspend-user or unsuspend-user sends
\* no upstream request and returns an error result.
C25_UserToolsEnterpriseOnly ==
  (/\ call.pc # "idle"
   /\ call.tool \in {"create-user", "update-user", "delete-user",
                     "suspend-user", "unsuspend-user"}
   /\ ~isGitHubEnterprise) =>
    /\ upstream = <<>>
    /\ call.pc = "done"
    /\ call.result = ToolResult("enterpriseOnly", TRUE)

\* C25 witness: delete-user was invoked on a server that is not configured
\* against GitHub Enterprise and has returned its error result.
C25_Witness ==
  /\ call.pc = "done"
  /\ call.tool = "delete-user"
  /\ ~isGitHubEnterprise
  /\ call.result.isError
  /\ upstream = <<>>

\* C30 (as claimed): on one session, a synthesized id differs from the id of
\* every other message handed to the session, synthesized or supplied by the
\* client.
C30_SynthesizedIdsDistinct ==
  \A i, j \in DOMAIN handed :
    (i # j /\ handed[i].synthesized) => handed[i].msg.id # handed[j].msg.id

====
